---------------------------- MODULE Spec2Model ----------------------------
(***************************************************************************)
(* The /solve handler of backend/app.py (solve_equation) as a state        *)
(* machine.  One request is processed at a time, statement group by        *)
(* statement group; the handler holds no state between requests.           *)
(*                                                                         *)
(* A text is a sequence of characters.  A character is the one-character   *)
(* string where TLA+ can write it (printable ASCII, "\t", "\n", "\r",      *)
(* "\f") and otherwise its code point written "U+XXXX".  In a query string *)
(* a percent escape ("%2B") is one element of the sequence.  The texts the *)
(* handler produces are TLA+ strings built with \o.                        *)
(*                                                                         *)
(* SymPy is the external engine.  Its calls (parse_expr, Eq, free_symbols, *)
(* symbols, equals, solve, str) are modelled on a catalogue of concrete    *)
(* expressions by what the engine returns for them; where the model does   *)
(* not derive the engine's answer, every answer the engine's interface     *)
(* allows is possible.                                                     *)
(***************************************************************************)
EXTENDS Integers, Sequences, FiniteSets, TLC

VARIABLES
    pc,          \* position in solve_equation: idle, validate, classify, ...
    eqArg,       \* "equation" in the query string: Absent or Given(text as sent)
    varArg,      \* "variable" in the query string: Absent or Given(text as sent)
    equation,    \* local `equation` (decoded and stripped)
    variable,    \* local `variable` (decoded and stripped)
    parts,       \* local `parts` (equation.split('='))
    lhs,         \* local `lhs`
    expr,        \* local `expr`
    solve_var,   \* local `solve_var`
    solutions,   \* local `solutions`
    calls,       \* calls made inside the try block for this request, in order
    responses    \* responses returned for this request, in order

vars == <<pc, eqArg, varArg, equation, variable, parts, lhs, expr,
          solve_var, solutions, calls, responses>>

\* Python's None as a text (str(None)), and the value of a local not yet bound.
None == "None"
Unbound == [kind |-> "unbound"]

\* A query parameter: absent from the query string, or given with a text.
Absent == [present |-> FALSE, text |-> <<>>]
Given(t) == [present |-> TRUE, text |-> t]

-----------------------------------------------------------------------------
(* Bounds and input alphabets *)

\* Longest enumerated `equation` value of a query string.
MaxLen == 4

\* Longest collection of solutions the engine returns where the model does
\* not derive the roots.
MaxSols == 2

\* Elements of the enumerated `equation` values, as sent: '+' is a space and
\* %09 a tab once decoded.
QueryAlphabet == {"+", "=", "x", "%09"}

RECURSIVE StringsUpTo(_, _)
StringsUpTo(A, n) ==
    IF n = 0 THEN {<<>>}
    ELSE LET shorter == StringsUpTo(A, n - 1)
         IN  shorter \cup {Append(s, c) : s \in {t \in shorter : Len(t) = n - 1}, c \in A}

-----------------------------------------------------------------------------
(* Flask: request.args *)

\* The decoding of a query string value: '+' is a space, a percent escape is
\* the character it encodes, anything else is itself.
Escapes ==
    { <<"+", " ">>, <<"%20", " ">>, <<"%09", "\t">>, <<"%0A", "\n">>,
      <<"%0D", "\r">>, <<"%0C", "\f">>, <<"%0B", "U+000B">>,
      <<"%C2%A0", "U+00A0">>, <<"%E3%80%80", "U+3000">>,
      <<"%2B", "+">>, <<"%3D", "=">>, <<"%2C", ",">> }

UrlDecodeElement(c) ==
    IF \E p \in Escapes : p[1] = c THEN (CHOOSE p \in Escapes : p[1] = c)[2] ELSE c

UrlDecode(t) == [i \in 1..Len(t) |-> UrlDecodeElement(t[i])]

\* request.args.get(name): the decoded text, or None (here: absent).
ArgsGet(arg) == IF arg.present THEN Given(UrlDecode(arg.text)) ELSE Absent

-----------------------------------------------------------------------------
(* Python str operations used by the handler *)

\* The characters str.isspace() holds for: str.strip() and str.split() with
\* no argument remove and separate on these.
Whitespace ==
    { " ", "\t", "\n", "\r", "\f", "U+000B", "U+001C", "U+001D", "U+001E",
      "U+001F", "U+0085", "U+00A0", "U+1680", "U+2000", "U+2001", "U+2002",
      "U+2003", "U+2004", "U+2005", "U+2006", "U+2007", "U+2008", "U+2009",
      "U+200A", "U+2028", "U+2029", "U+202F", "U+205F", "U+3000" }

IsSpace(c) == c \in Whitespace

RECURSIVE LStrip(_)
LStrip(s) == IF s # <<>> /\ IsSpace(Head(s)) THEN LStrip(Tail(s)) ELSE s

RECURSIVE RStrip(_)
RStrip(s) ==
    IF s # <<>> /\ IsSpace(s[Len(s)]) THEN RStrip(SubSeq(s, 1, Len(s) - 1)) ELSE s

Strip(s) == RStrip(LStrip(s))

\* (request.args.get(name) or ""): a missing or empty parameter is "".
OrEmpty(arg) == IF ArgsGet(arg).present THEN ArgsGet(arg).text ELSE <<>>

StrippedArgUntrimmed(arg) == OrEmpty(arg)
\* (request.args.get(name) or "").strip()
StrippedArg(arg) == Strip(OrEmpty(arg))

\* '=' in equation
Contains(s, c) == \E i \in 1..Len(s) : s[i] = c

\* equation.split(sep): the pieces between the occurrences of sep.
RECURSIVE SplitFrom(_, _, _, _)
SplitFrom(s, sep, cur, acc) ==
    IF s = <<>> THEN Append(acc, cur)
    ELSE IF Head(s) = sep THEN SplitFrom(Tail(s), sep, <<>>, Append(acc, cur))
    ELSE SplitFrom(Tail(s), sep, Append(cur, Head(s)), acc)

Split(s, sep) == SplitFrom(s, sep, <<>>, <<>>)

\* str.split() with no argument: the maximal runs of non-whitespace.
RECURSIVE WordsFrom(_, _, _)
WordsFrom(s, cur, acc) ==
    IF s = <<>> THEN (IF cur = <<>> THEN acc ELSE Append(acc, cur))
    ELSE IF IsSpace(Head(s))
         THEN WordsFrom(Tail(s), <<>>, IF cur = <<>> THEN acc ELSE Append(acc, cur))
         ELSE WordsFrom(Tail(s), Append(cur, Head(s)), acc)

Words(s) == WordsFrom(s, <<>>, <<>>)

\* The text of a character sequence.
RECURSIVE Str(_)
Str(s) == IF s = <<>> THEN "" ELSE Head(s) \o Str(Tail(s))

\* sep.join(items) on texts.
RECURSIVE Join(_, _)
Join(sep, items) ==
    IF items = <<>> THEN ""
    ELSE IF Len(items) = 1 THEN items[1]
    ELSE items[1] \o sep \o Join(sep, Tail(items))

-----------------------------------------------------------------------------
(* The engine: expressions *)

\* A parsed expression: its str() text, its free symbols, whether the engine
\* knows it to be nonzero (is_zero is False), and for a number its exact value.
Expression(text, free, nonzero, value) ==
    [kind |-> "expr", text |-> text, free |-> free, nonzero |-> nonzero, value |-> value]

DecimalText(n) == <<"0", "1", "2", "3", "4", "5", "6", "7", "8", "9">>[n + 1]

Zero      == Expression("0", {}, FALSE, "0")
Five      == Expression("5", {}, TRUE, "5")
AtanSum   == Expression("atan(1/3) + atan(1/2)", {}, FALSE, "pi/4")
PiQuarter == Expression("pi/4", {}, TRUE, "pi/4")
ExpX      == Expression("exp(x)", {"x"}, TRUE, None)
XplusY    == Expression("x + y", {"x", "y"}, FALSE, None)
AplusY    == Expression("a + y", {"a", "y"}, FALSE, None)
Quad      == Expression("x**2 + 2*x - 10", {"x"}, FALSE, None)
Lin       == Expression("2*x + 4", {"x"}, FALSE, None)
Undet     == Expression("x*(a + b) - b + 2", {"a", "b", "x"}, FALSE, None)
\* What the texts with a space in place of '+' parse to (implicit
\* multiplication): x^2 2x-10, 2x 4, x y.
Cubic     == Expression("2*x**3 - 10", {"x"}, FALSE, None)
EightX    == Expression("8*x", {"x"}, FALSE, None)
XtimesY   == Expression("x*y", {"x", "y"}, FALSE, None)

\* x multiplied k times by itself (k >= 1): x, x**2, x**3, ...
Mono(k) ==
    Expression(IF k = 1 THEN "x" ELSE "x**" \o DecimalText(k), {"x"}, FALSE, None)

\* S.true and S.false: what Eq(...) becomes when the engine decides it.
BooleanAtom(b) == [kind |-> "bool", text |-> IF b THEN "True" ELSE "False"]

\* A call either returns a value or raises an exception of some class with a
\* message (str(e)).
Ok(v) == [ok |-> TRUE, val |-> v]
Raise(cls, m) == [ok |-> FALSE, cls |-> cls, msg |-> m]

\* The record of a call kept in `calls`: the function called and the class of
\* the exception it raised (None when it returned), with its message.
Call(fn, out) ==
    [fn |-> fn, raised |-> IF out.ok THEN None ELSE out.cls,
     msg |-> IF out.ok THEN "" ELSE out.msg]

\* Texts of `equation` (decoded) with a known parse.
T_quad   == <<"x", "^", "2", "+", "2", "x", "-", "1", "0">>
T_lin    == <<"2", "x", "+", "4">>
T_zero   == <<"0">>
T_five   == <<"5">>
T_xplusy == <<"x", "+", "y">>
T_aplusy == <<"a", "+", "y">>
T_expx   == <<"e", "x", "p", "(", "x", ")">>
T_atan   == <<"a", "t", "a", "n", "(", "1", "/", "2", ")", "+", "a", "t", "a", "n", "(", "1", "/", "3", ")">>
T_piq    == <<"p", "i", "/", "4">>
T_undet  == <<"(", "a", "+", "b", ")", "*", "x", "-", "b", "+", "2">>
T_cubic  == <<"x", "^", "2", " ", "2", "x", "-", "1", "0">>
T_eightx == <<"2", "x", " ", "4">>
T_xy     == <<"x", " ", "y">>
\* A text whose evaluation by parse_expr (which uses eval) reaches the
\* interpreter's exit().
T_exit   ==
    <<"S", ".", "_", "_", "c", "l", "a", "s", "s", "_", "_", ".", "_", "_", "i", "n", "i", "t", "_", "_", ".", "_", "_", "g", "l", "o", "b", "a", "l", "s", "_", "_", "[", "'", "_", "_", "b", "u", "i", "l", "t", "i", "n", "s", "_", "_", "'", "]", "[", "'", "e", "x", "i", "t", "'", "]", "(", ")">>

ParseTable ==
    { <<T_quad, Quad>>, <<T_lin, Lin>>, <<T_zero, Zero>>, <<T_five, Five>>,
      <<T_xplusy, XplusY>>, <<T_aplusy, AplusY>>, <<T_expx, ExpX>>,
      <<T_atan, AtanSum>>, <<T_piq, PiQuarter>>, <<T_undet, Undet>>,
      <<T_cubic, Cubic>>, <<T_eightx, EightX>>, <<T_xy, XtimesY>> }

CountOf(s, c) == Cardinality({i \in 1..Len(s) : s[i] = c})

\* parse_expr(text, transformations=...) with implicit multiplication and
\* symbol splitting: "x", "xx", "x x" are x, x*x, x*x; the empty text does not
\* parse; the text that calls exit() raises SystemExit.  The message of the
\* SyntaxError is the engine's own text.
parse_expr(text) ==
    IF \E p \in ParseTable : p[1] = text
    THEN Ok((CHOOSE p \in ParseTable : p[1] = text)[2])
    ELSE IF text = T_exit THEN Raise("SystemExit", "None")
    ELSE IF text # <<>> /\ (\A i \in 1..Len(text) : text[i] = "x" \/ IsSpace(text[i]))
              /\ CountOf(text, "x") >= 1
    THEN Ok(Mono(CountOf(text, "x")))
    ELSE Raise("SyntaxError", "invalid syntax")

IsNumber(e) == e.kind = "expr" /\ e.free = {}

\* Eq(lhs, rhs): the engine evaluates the relation when it can decide it:
\* identical sides are True; numbers of different value are False; numbers of
\* the same value that are written differently stay unevaluated (their
\* difference has no numerical significance); a difference known to be nonzero
\* is False; anything else stays an Equality.
Eq(l, r) ==
    IF l = r THEN BooleanAtom(TRUE)
    ELSE IF IsNumber(l) /\ IsNumber(r)
         THEN (IF l.value # r.value THEN BooleanAtom(FALSE)
               ELSE [kind |-> "Eq", lhs |-> l, rhs |-> r])
    ELSE IF r = Zero /\ l.nonzero THEN BooleanAtom(FALSE)
    ELSE IF l = Zero /\ r.nonzero THEN BooleanAtom(FALSE)
    ELSE [kind |-> "Eq", lhs |-> l, rhs |-> r]

\* isinstance(expr, Eq)
IsEq(e) == e.kind = "Eq"

\* expr.free_symbols
free_symbols(e) ==
    IF e.kind = "Eq" THEN e.lhs.free \cup e.rhs.free
    ELSE IF e.kind = "bool" THEN {}
    ELSE e.free

\* expr.lhs.equals(expr.rhs): True, False, or None when the engine cannot
\* decide.  For numbers of different value it is False; for numbers of the
\* same value that Eq left unevaluated it is True when simplification proves
\* the identity and None when it does not.
equals(l, r) ==
    IF l = r THEN {"True"}
    ELSE IF IsNumber(l) /\ IsNumber(r) /\ l.value # r.value THEN {"False"}
    ELSE {"True", "None"}

\* str(expr)
str(e) == e.text

-----------------------------------------------------------------------------
(* The engine: symbols and solve *)

\* What symbols(text) returns: one Symbol, or a tuple of Symbols.
Symbol(name) == [kind |-> "sym", names |-> <<name>>]
SymbolTuple(names) == [kind |-> "tuple", names |-> names]

RECURSIVE Flatten(_)
Flatten(ss) == IF ss = <<>> THEN <<>> ELSE Head(ss) \o Flatten(Tail(ss))

\* symbols(text): the text is stripped; a trailing comma asks for a tuple; the
\* text is split on commas, each piece stripped (an empty piece is an error)
\* and each piece split on whitespace; one name gives a Symbol unless a tuple
\* was asked for, several give a tuple.
symbols(text) ==
    LET marked   == Strip(text)
        as_seq   == marked # <<>> /\ marked[Len(marked)] = ","
        stripped == IF as_seq THEN SubSeq(marked, 1, Len(marked) - 1) ELSE marked
        pieces   == LET raw == Split(stripped, ",")
                    IN  [i \in 1..Len(raw) |-> Strip(raw[i])]
        names    == LET ws == Flatten([i \in 1..Len(pieces) |-> Words(pieces[i])])
                    IN  [i \in 1..Len(ws) |-> Str(ws[i])]
    IN  IF marked = <<>> \/ stripped = <<>>
        THEN Raise("ValueError", "no symbols given")
        ELSE IF \E i \in 1..Len(pieces) : pieces[i] = <<>>
        THEN Raise("ValueError", "missing symbol between commas")
        ELSE IF Len(names) = 1 /\ ~as_seq THEN Ok(Symbol(names[1]))
        ELSE Ok(SymbolTuple(names))

\* str(solve_var) inside the f-string: a Symbol prints its name, a tuple
\* prints as a Python tuple.
VarText(v) ==
    IF v.kind = "sym" THEN v.names[1]
    ELSE IF Len(v.names) = 1 THEN "(" \o v.names[1] \o ",)"
    ELSE "(" \o Join(", ", v.names) \o ")"

\* What solve returns: a list of solutions, or (for several unknowns whose
\* coefficients it matches) a dict from unknown to value.  Solutions are represented by their str() texts.
ListAnswer(items) == [kind |-> "list", items |-> items]
DictAnswer(keys, vals) == [kind |-> "dict", keys |-> keys, vals |-> vals]

\* Solution texts of the answers the model does not derive.
SolutionTexts == {"0", "1"}

RECURSIVE SeqsUpTo(_, _)
SeqsUpTo(A, n) ==
    IF n = 0 THEN {<<>>}
    ELSE LET shorter == SeqsUpTo(A, n - 1)
         IN  shorter \cup {Append(q, a) : q \in {t \in shorter : Len(t) = n - 1}, a \in A}

\* Every answer of solve the interface allows for one unknown: a list of
\* solutions, an exception of the engine, or an interrupt while it runs.
AnySolveOutcome ==
    {Ok(ListAnswer(q)) : q \in SeqsUpTo(SolutionTexts, MaxSols)}
        \cup {Raise("NotImplementedError", "multiple generators"),
              Raise("KeyboardInterrupt", "")}

\* The roots of 2*x**3 - 10: the real one, then the complex pair in the
\* engine's order.
CubicRoots ==
    { <<"5**(1/3)", "-5**(1/3)/2 - sqrt(3)*5**(1/3)*I/2",
        "-5**(1/3)/2 + sqrt(3)*5**(1/3)*I/2">>,
      <<"5**(1/3)", "-5**(1/3)/2 + sqrt(3)*5**(1/3)*I/2",
        "-5**(1/3)/2 - sqrt(3)*5**(1/3)*I/2">> }

\* The monomials c*x**k, whose only root is 0.
MonoLike(f) == f = EightX \/ \E k \in 1..(MaxLen + 1) : f = Mono(k)

\* solve(expr, solve_var): the set of possible outcomes.  An Equality with a
\* zero right side is solved as its left side.
solve(e, v) ==
    LET f == IF e.kind = "Eq" /\ e.rhs = Zero THEN e.lhs ELSE e
    IN  IF v.kind = "tuple"
        THEN (IF f = Undet /\ v.names = <<"a", "b">>
              THEN {Ok(DictAnswer(<<"a", "b">>, <<"-2", "2">>))}
              ELSE IF \A i \in 1..Len(v.names) : v.names[i] \notin free_symbols(f)
              THEN {Ok(ListAnswer(<<>>))}
              ELSE AnySolveOutcome)
        ELSE IF f.kind = "bool" THEN {Ok(ListAnswer(<<>>))}
        ELSE IF v.names[1] \notin free_symbols(f) THEN {Ok(ListAnswer(<<>>))}
        ELSE IF f = Quad THEN {Ok(ListAnswer(<<"-1 + sqrt(11)", "-sqrt(11) - 1">>))}
        ELSE IF f = Lin THEN {Ok(ListAnswer(<<"-2">>))}
        ELSE IF f = ExpX THEN {Ok(ListAnswer(<<>>))}
        ELSE IF f.kind = "expr" /\ MonoLike(f) THEN {Ok(ListAnswer(<<"0">>))}
        ELSE IF f = [kind |-> "Eq", lhs |-> XplusY, rhs |-> Five]
        THEN {Ok(ListAnswer(<<IF v.names[1] = "x" THEN "5 - y" ELSE "5 - x">>))}
        ELSE IF f = [kind |-> "Eq", lhs |-> XtimesY, rhs |-> Five]
        THEN {Ok(ListAnswer(<<IF v.names[1] = "x" THEN "5/y" ELSE "5/x">>))}
        ELSE IF f = XplusY
        THEN {Ok(ListAnswer(<<IF v.names[1] = "x" THEN "-y" ELSE "-x">>))}
        ELSE IF f = XtimesY THEN {Ok(ListAnswer(<<"0">>))}
        ELSE IF f = AplusY
        THEN {Ok(ListAnswer(<<IF v.names[1] = "a" THEN "-y" ELSE "-a">>))}
        ELSE IF f = Undet /\ v.names[1] = "x" THEN {Ok(ListAnswer(<<"(b - 2)/(a + b)">>))}
        ELSE IF f = Cubic THEN {Ok(ListAnswer(q)) : q \in CubicRoots}
        ELSE AnySolveOutcome

-----------------------------------------------------------------------------
(* The handler: responses and pure parts *)

Response(status, body) == [status |-> status, body |-> body]

\* jsonify({"error": "Missing 'equation' query parameter"}), 400
MissingResponse == Response(400, [error |-> "Missing 'equation' query parameter"])

InvalidFormatResponseNoStatus ==
    Response(200, [error |-> "Invalid equation format. Use single '=' sign."])
\* jsonify({"error": "Invalid equation format. Use single '=' sign."}), 400
InvalidFormatResponse ==
    Response(400, [error |-> "Invalid equation format. Use single '=' sign."])

\* jsonify({"error": f"Failed to solve equation: {str(e)}"}), 400
FailureResponse(msg) == Response(400, [error |-> "Failed to solve equation: " \o msg])

\* jsonify({"result": ...}) with the default status
ResultResponse(text) == Response(200, [result |-> text])

\* `except Exception` catches the exceptions that derive from Exception;
\* SystemExit, KeyboardInterrupt and GeneratorExit derive from BaseException
\* only and leave the handler.
NonExceptions == {"SystemExit", "KeyboardInterrupt", "GeneratorExit"}
Caught(out) == out.cls \notin NonExceptions

\* Truth value, length, iteration and indexing of the solver's answer:
\* a dict is iterated over its keys and has no key 0.
AnswerLen(a) == IF a.kind = "list" THEN Len(a.items) ELSE Len(a.keys)
Iterated(a) == IF a.kind = "list" THEN a.items ELSE a.keys
GetItem0(a) == IF a.kind = "list" THEN Ok(a.items[1]) ELSE Raise("KeyError", "0")

FormatResultEachPrefixed(v, a) ==
    IF AnswerLen(a) = 0 THEN Ok("No solution found")
    ELSE Ok(Join(", ", [i \in 1..AnswerLen(a) |-> VarText(v) \o " = " \o Iterated(a)[i]]))
\* The result text of lines 85-92, or the exception raised while building it.
FormatResult(v, a) ==
    IF AnswerLen(a) = 0 THEN Ok("No solution found")
    ELSE IF AnswerLen(a) = 1
         THEN (IF GetItem0(a).ok THEN Ok(VarText(v) \o " = " \o GetItem0(a).val)
               ELSE GetItem0(a))
    ELSE Ok(VarText(v) \o " = " \o Join(", ", Iterated(a)))

\* sorted(...) on the names of the catalogue's symbols.
NameOrder == <<"a", "b", "x", "y">>
NameRank(n) == CHOOSE i \in 1..Len(NameOrder) : NameOrder[i] = n
FirstSorted(free) == CHOOSE n \in free : \A m \in free : NameRank(n) <= NameRank(m)

\* Lines 63-80: which unknown to solve for, or that the expression is to be
\* evaluated.  The result names the text handed to symbols().
SelectVariable(var, free) ==
    IF var # <<>> THEN [tag |-> "solve", text |-> var]
    ELSE IF Cardinality(free) = 1
         THEN [tag |-> "single", text |-> <<CHOOSE n \in free : TRUE>>]
    ELSE IF free = {} THEN [tag |-> "evaluate", text |-> <<>>]
    ELSE IF "x" \in free THEN [tag |-> "solve", text |-> <<"x">>]
    ELSE [tag |-> "solve", text |-> <<FirstSorted(free)>>]

\* Where a request is after the except clause has returned its response.
AfterExcept(at) == "done"

\* len(parts) != 2
WrongPartCountTooFew(p) == Len(p) < 2
WrongPartCount(p) == Len(p) # 2

\* Line 70/73: the text returned when the expression has no free symbol.
EvaluationText(e, outcome) == IF IsEq(e) THEN outcome ELSE str(e)

-----------------------------------------------------------------------------
(* Requests *)

\* The `equation` values of the scenarios, as they stand in the query string:
\* with '+' written literally (as in the message of line 101) and with '+'
\* sent as %2B.
Q_quad_literal == <<"x", "^", "2", "+", "2", "x", "-", "1", "0">>
Q_quad == <<"x", "^", "2", "%2B", "2", "x", "-", "1", "0">>
Q_lin_literal == <<"2", "x", "+", "4", "=", "0">>
Q_lin == <<"2", "x", "%2B", "4", "=", "0">>
Q_five_five == <<"5", "=", "5">>
Q_five_zero == <<"5", "=", "0">>
Q_sum_literal == <<"x", "+", "y", "=", "5">>
Q_sum_five == <<"x", "%2B", "y", "=", "5">>
Q_xplusy == <<"x", "%2B", "y">>
Q_aplusy == <<"a", "%2B", "y">>
Q_five == <<"5">>
Q_expx == <<"e", "x", "p", "(", "x", ")">>
Q_expx_zero == <<"e", "x", "p", "(", "x", ")", "+", "=", "+", "0">>
Q_atan == <<"a", "t", "a", "n", "(", "1", "/", "2", ")", "%2B", "a", "t", "a", "n", "(", "1", "/", "3", ")", "=", "p", "i", "/", "4">>
Q_three_sides == <<"1", "=", "2", "=", "3">>
Q_undet == <<"(", "a", "%2B", "b", ")", "*", "x", "-", "b", "%2B", "2">>
Q_exit == <<"S", ".", "_", "_", "c", "l", "a", "s", "s", "_", "_", ".", "_", "_", "i", "n", "i", "t", "_", "_", ".", "_", "_", "g", "l", "o", "b", "a", "l", "s", "_", "_", "[", "'", "_", "_", "b", "u", "i", "l", "t", "i", "n", "s", "_", "_", "'", "]", "[", "'", "e", "x", "i", "t", "'", "]", "(", ")">>

ScenarioEquations ==
    { Q_quad_literal, Q_quad, Q_lin_literal, Q_lin,
      Q_five_five, Q_five_zero, Q_sum_literal, Q_sum_five,
      Q_xplusy, Q_aplusy, Q_five, Q_expx,
      Q_expx_zero, Q_atan, Q_three_sides, Q_undet,
      Q_exit }

EquationArgs ==
    {Absent} \cup {Given(t) : t \in StringsUpTo(QueryAlphabet, MaxLen) \cup ScenarioEquations}

\* The `variable` values, as sent: blank ones, single names, lists of names.
VariableTexts ==
    { <<>>, <<"+">>, <<"%09">>, <<"x">>, <<"+", "y", "+">>, <<"z">>,
      <<"x", ",", "y">>, <<"x", "+", "y">>, <<"x", "%09", "y">>,
      <<"x", ",">>, <<",">>, <<"a", ",", "b">> }

VariableArgs == {Absent} \cup {Given(t) : t \in VariableTexts}

-----------------------------------------------------------------------------
(* The handler as a state machine *)

Init ==
    /\ pc = "idle"
    /\ eqArg = Absent
    /\ varArg = Absent
    /\ equation = <<>>
    /\ variable = <<>>
    /\ parts = <<>>
    /\ lhs = Unbound
    /\ expr = Unbound
    /\ solve_var = Unbound
    /\ solutions = Unbound
    /\ calls = <<>>
    /\ responses = <<>>

\* Flask dispatches GET /solve to solve_equation; lines 29-30 bind the locals.
Receive(e, v) ==
    /\ pc = "idle"
    /\ eqArg' = e
    /\ varArg' = v
    /\ equation' = StrippedArg(e)
    /\ variable' = StrippedArg(v)
    /\ pc' = "validate"
    /\ UNCHANGED <<parts, lhs, expr, solve_var, solutions, calls, responses>>

\* Lines 32-33.
Validate ==
    /\ pc = "validate"
    /\ IF equation = <<>>
       THEN /\ responses' = Append(responses, MissingResponse)
            /\ pc' = "done"
       ELSE /\ responses' = responses
            /\ pc' = "classify"
    /\ UNCHANGED <<eqArg, varArg, equation, variable, parts, lhs, expr,
                   solve_var, solutions, calls>>

\* Lines 43-47.
Classify ==
    /\ pc = "classify"
    /\ IF Contains(equation, "=")
       THEN /\ parts' = Split(equation, "=")
            /\ IF WrongPartCount(Split(equation, "="))
               THEN /\ responses' = Append(responses, InvalidFormatResponse)
                    /\ pc' = "done"
               ELSE /\ responses' = responses
                    /\ pc' = "parse_lhs"
       ELSE /\ parts' = parts
            /\ responses' = responses
            /\ pc' = "parse_whole"
    /\ UNCHANGED <<eqArg, varArg, equation, variable, lhs, expr, solve_var,
                   solutions, calls>>

\* A call inside the try block raised: lines 96-97 answer when the exception
\* derives from Exception; otherwise it leaves the handler and no response is
\* returned.
Raised(fn, out) ==
    /\ calls' = Append(calls, Call(fn, out))
    /\ IF Caught(out)
       THEN /\ responses' = Append(responses, FailureResponse(out.msg))
            /\ pc' = AfterExcept(pc)
       ELSE /\ responses' = responses
            /\ pc' = "raised"

\* Line 49.
ParseLhs ==
    /\ pc = "parse_lhs"
    /\ LET out == parse_expr(Strip(parts[1]))
       IN  IF out.ok
           THEN /\ lhs' = out.val
                /\ calls' = Append(calls, Call("parse_expr", out))
                /\ responses' = responses
                /\ pc' = "parse_rhs"
           ELSE /\ lhs' = lhs
                /\ Raised("parse_expr", out)
    /\ UNCHANGED <<eqArg, varArg, equation, variable, parts, expr, solve_var, solutions>>

\* Lines 50-51.
ParseRhs ==
    /\ pc = "parse_rhs"
    /\ LET out == parse_expr(Strip(parts[2]))
       IN  IF out.ok
           THEN /\ expr' = Eq(lhs, out.val)
                /\ calls' = Append(calls, Call("parse_expr", out))
                /\ responses' = responses
                /\ pc' = "select"
           ELSE /\ expr' = expr
                /\ Raised("parse_expr", out)
    /\ UNCHANGED <<eqArg, varArg, equation, variable, parts, lhs, solve_var, solutions>>

\* Line 54.
ParseWhole ==
    /\ pc = "parse_whole"
    /\ LET out == parse_expr(equation)
       IN  IF out.ok
           THEN /\ expr' = out.val
                /\ calls' = Append(calls, Call("parse_expr", out))
                /\ responses' = responses
                /\ pc' = "select"
           ELSE /\ expr' = expr
                /\ Raised("parse_expr", out)
    /\ UNCHANGED <<eqArg, varArg, equation, variable, parts, lhs, solve_var, solutions>>

\* Lines 57-80.
Select ==
    /\ pc = "select"
    /\ LET sel == SelectVariable(variable, free_symbols(expr))
       IN  CASE sel.tag = "evaluate" ->
                  /\ \E outcome \in (IF IsEq(expr) THEN equals(expr.lhs, expr.rhs)
                                     ELSE {str(expr)}) :
                        /\ calls' = IF IsEq(expr)
                                    THEN Append(calls, Call("equals", Ok(outcome)))
                                    ELSE calls
                        /\ responses' =
                             Append(responses, ResultResponse(EvaluationText(expr, outcome)))
                  /\ solve_var' = solve_var
                  /\ pc' = "done"
             [] sel.tag = "single" ->
                  /\ solve_var' = Symbol(sel.text[1])
                  /\ calls' = calls
                  /\ responses' = responses
                  /\ pc' = "solve"
             [] sel.tag = "solve" ->
                  LET out == symbols(sel.text)
                  IN  IF out.ok
                      THEN /\ solve_var' = out.val
                           /\ calls' = Append(calls, Call("symbols", out))
                           /\ responses' = responses
                           /\ pc' = "solve"
                      ELSE /\ solve_var' = solve_var
                           /\ Raised("symbols", out)
    /\ UNCHANGED <<eqArg, varArg, equation, variable, parts, lhs, expr, solutions>>

\* Lines 83-94.
Solve ==
    /\ pc = "solve"
    /\ \E out \in solve(expr, solve_var) :
          IF out.ok
          THEN /\ solutions' = out.val
               /\ LET fmt == FormatResult(solve_var, out.val)
                  IN  IF fmt.ok
                      THEN /\ calls' = Append(calls, Call("solve", out))
                           /\ responses' = Append(responses, ResultResponse(fmt.val))
                           /\ pc' = "done"
                      ELSE /\ calls' = calls \o <<Call("solve", out), Call("solutions[0]", fmt)>>
                           /\ responses' = Append(responses, FailureResponse(fmt.msg))
                           /\ pc' = AfterExcept(pc)
          ELSE /\ solutions' = solutions
               /\ Raised("solve", out)
    /\ UNCHANGED <<eqArg, varArg, equation, variable, parts, lhs, expr, solve_var>>

\* The request is over (a response was returned, or an exception left the
\* handler); the locals are gone and the next request starts afresh.
Return ==
    /\ pc \in {"done", "raised"}
    /\ pc' = "idle"
    /\ eqArg' = Absent
    /\ varArg' = Absent
    /\ equation' = <<>>
    /\ variable' = <<>>
    /\ parts' = <<>>
    /\ lhs' = Unbound
    /\ expr' = Unbound
    /\ solve_var' = Unbound
    /\ solutions' = Unbound
    /\ calls' = <<>>
    /\ responses' = <<>>

Next ==
    \/ \E e \in EquationArgs, v \in VariableArgs : Receive(e, v)
    \/ Validate
    \/ Classify
    \/ ParseLhs
    \/ ParseRhs
    \/ ParseWhole
    \/ Select
    \/ Solve
    \/ Return

Spec == Init /\ [][Next]_vars

-----------------------------------------------------------------------------
(* The handler as a function of the request *)

\* How a request ends: with a response, or with an exception of some class
\* leaving the handler.
Propagated(cls) == [propagated |-> cls]
Handled(out) == IF Caught(out) THEN FailureResponse(out.msg) ELSE Propagated(out.cls)

\* Lines 83-94 for one answer of the solver.
AfterSolve(sv, out) ==
    IF out.ok
    THEN (IF FormatResult(sv, out.val).ok
          THEN ResultResponse(FormatResult(sv, out.val).val)
          ELSE Handled(FormatResult(sv, out.val)))
    ELSE Handled(out)

\* Lines 57-94 for a parsed expression.
AfterParse(e, var) ==
    LET sel == SelectVariable(var, free_symbols(e))
    IN  IF sel.tag = "evaluate"
        THEN {ResultResponse(EvaluationText(e, outcome)) :
                outcome \in (IF IsEq(e) THEN equals(e.lhs, e.rhs) ELSE {str(e)})}
        ELSE IF sel.tag = "single"
        THEN {AfterSolve(Symbol(sel.text[1]), out) : out \in solve(e, Symbol(sel.text[1]))}
        ELSE IF symbols(sel.text).ok
        THEN {AfterSolve(symbols(sel.text).val, out) : out \in solve(e, symbols(sel.text).val)}
        ELSE {Handled(symbols(sel.text))}

\* solve_equation for the query parameters e and v: the set of ways the
\* request can end.
solve_equation(e, v) ==
    LET eq  == StrippedArg(e)
        var == StrippedArg(v)
        ps  == Split(eq, "=")
    IN  IF eq = <<>> THEN {MissingResponse}
        ELSE IF Contains(eq, "=")
        THEN (IF WrongPartCount(ps) THEN {InvalidFormatResponse}
              ELSE IF ~parse_expr(Strip(ps[1])).ok THEN {Handled(parse_expr(Strip(ps[1])))}
              ELSE IF ~parse_expr(Strip(ps[2])).ok THEN {Handled(parse_expr(Strip(ps[2])))}
              ELSE AfterParse(Eq(parse_expr(Strip(ps[1])).val, parse_expr(Strip(ps[2])).val), var))
        ELSE IF ~parse_expr(eq).ok THEN {Handled(parse_expr(eq))}
        ELSE AfterParse(parse_expr(eq).val, var)

\* The steps end a request the way the function says.
StepsMatchFunction ==
    /\ pc = "done" => responses[1] \in solve_equation(eqArg, varArg)
    /\ pc = "raised" => Propagated(calls[Len(calls)].raised) \in solve_equation(eqArg, varArg)

-----------------------------------------------------------------------------
(* Properties *)

\* The request is over: a response was returned or an exception left the handler.
Settled == pc \in {"done", "raised"}

\* Number of calls of the solver, and of the parser, in this request.
SolveCalls == Cardinality({i \in 1..Len(calls) : calls[i].fn = "solve"})
ParseCalls == Cardinality({i \in 1..Len(calls) : calls[i].fn = "parse_expr"})

\* The `equation` parameter is missing, empty or whitespace-only.
BlankEquation ==
    \/ ~eqArg.present
    \/ \A i \in 1..Len(eqArg.text) : UrlDecode(eqArg.text)[i] \in Whitespace

\* Number of '=' in the `equation` parameter.
EqualsSigns == CountOf(UrlDecode(eqArg.text), "=")

\* C1: a request whose equation is missing, empty or whitespace-only is
\* answered 400 "Missing 'equation' query parameter" whatever `variable` is,
\* and neither the parser nor the solver is called.
C1_MissingEquation ==
    (pc \notin {"idle", "validate"} /\ BlankEquation)
        => /\ pc = "done"
           /\ responses = <<Response(400, [error |-> "Missing 'equation' query parameter"])>>
           /\ calls = <<>>

\* An equation of a tab and a space, with a variable, was answered.
C1_Witness ==
    /\ pc = "done"
    /\ eqArg = Given(<<"%09", "+">>)
    /\ varArg = Given(<<"x">>)
    /\ responses = <<MissingResponse>>

\* C2: an equation with two or more '=' is answered 400 "Invalid equation
\* format. Use single '=' sign." whatever lies between the signs and whatever
\* `variable` is, before any side is parsed.
C2_InvalidFormat ==
    (pc \notin {"idle", "validate", "classify"} /\ ~BlankEquation /\ EqualsSigns >= 2)
        => /\ pc = "done"
           /\ responses =
                <<Response(400, [error |-> "Invalid equation format. Use single '=' sign."])>>
           /\ calls = <<>>

\* An equation with empty sides around two '=' was answered.
C2_Witness ==
    /\ pc = "done"
    /\ eqArg = Given(<<"=", "x", "=">>)
    /\ responses = <<InvalidFormatResponse>>

\* C3: every exception raised by a step inside the handler is caught and
\* answered 400 "Failed to solve equation: " followed by its message; no
\* request ends with an exception leaving the handler.
C3_ExceptionsCaught ==
    /\ pc # "raised"
    /\ \A i \in 1..Len(calls) :
          calls[i].raised # None
              => /\ i = Len(calls)
                 /\ pc = "done"
                 /\ responses =
                      <<Response(400, [error |-> "Failed to solve equation: " \o calls[i].msg])>>

\* The reference selectVariable(freeVars, requested) of C4.
C4_Reference(free, requested) ==
    IF requested # <<>> THEN Str(requested)
    ELSE IF Cardinality(free) = 1 THEN CHOOSE n \in free : TRUE
    ELSE IF "x" \in free THEN "x"
    ELSE CHOOSE n \in free : \A m \in free : NameRank(n) <= NameRank(m)

\* C4: the variable handed to the solver is the one symbol named by
\* selectVariable(free variables, requested variable).
C4_SelectedVariable ==
    pc = "solve"
        => solve_var = [kind |-> "sym",
                        names |-> <<C4_Reference(free_symbols(expr), variable)>>]

\* The result text C5 states for a variable text and solution texts.
C5_Listed(v, sols) ==
    IF sols = <<>> THEN "No solution found"
    ELSE v \o " = " \o Join(", ", sols)

\* The solutions of a solver answer, in its order.
C5_Solutions(a) == IF a.kind = "list" THEN a.items ELSE a.vals

\* C5: when the solver was called and returned, the response is 200 and its
\* result is "No solution found" for no solution and otherwise the variable
\* once, " = ", and the solutions joined by ", " in the solver's order.
C5_ResultFormat ==
    (pc = "done" /\ solutions # Unbound)
        => responses =
             <<Response(200, [result |-> C5_Listed(VarText(solve_var), C5_Solutions(solutions))])>>

\* The scenario of C6: the handler received x^2+2x-10 without a variable and
\* the solver returned the two roots in this order.
C6_Case ==
    /\ pc = "done"
    /\ ~varArg.present
    /\ equation = T_quad
    /\ solutions = ListAnswer(<<"-1 + sqrt(11)", "-sqrt(11) - 1">>)

\* C6 as stated: in the scenario each root is preceded by its own "x = ".
C6_EachRootPrefixed ==
    C6_Case => responses = <<Response(200, [result |-> "x = -1 + sqrt(11), x = -sqrt(11) - 1"])>>

\* C6: in the scenario the result is "x = " once, followed by the two roots
\* joined by ", ".
C6_RootsAfterOnePrefix ==
    C6_Case => responses = <<Response(200, [result |-> "x = -1 + sqrt(11), -sqrt(11) - 1"])>>

\* The scenario was answered, the '+' of the query sent as %2B.
C6_Witness ==
    /\ C6_Case
    /\ eqArg = Given(Q_quad)
    /\ Len(responses) = 1

\* C7: with no free variable and no `variable`, the solver is not called and
\* the response is 200; for an input with one '=' the result is "True" or
\* "False", for a bare expression it is the text of the parsed expression.
C7_Evaluation ==
    (pc = "done" /\ expr # Unbound /\ variable = <<>> /\ free_symbols(expr) = {})
        => /\ SolveCalls = 0
           /\ Len(responses) = 1
           /\ responses[1].status = 200
           /\ DOMAIN responses[1].body = {"result"}
           /\ IF Contains(equation, "=")
              THEN responses[1].body.result \in {"True", "False"}
              ELSE responses[1].body.result = expr.text

\* C8: every response is an object with exactly one key, result or error,
\* whose value is a string; the status is 200 with result and 400 with error.
C8_ResponseShape ==
    \A i \in 1..Len(responses) :
        LET r == responses[i]
        IN  \/ /\ DOMAIN r.body = {"result"}
               /\ r.body.result \in STRING
               /\ r.status = 200
            \/ /\ DOMAIN r.body = {"error"}
               /\ r.body.error \in STRING
               /\ r.status = 400

\* A request has been answered with a result and status 200.
C8_Witness ==
    /\ pc = "done"
    /\ eqArg = Given(Q_five_five)
    /\ responses = <<Response(200, [result |-> "True"])>>

\* C9: for a bare expression e with exactly one free variable, the request for
\* e and the request for "e = 0" (both without `variable`) get the same
\* response.
C9_BareEqualsEquation ==
    (/\ pc = "done"
     /\ eqArg.present
     /\ ~varArg.present
     /\ expr # Unbound
     /\ ~Contains(equation, "=")
     /\ Cardinality(free_symbols(expr)) = 1)
        => responses[1] \in solve_equation(Given(eqArg.text \o <<"+", "=", "+", "0">>), Absent)

\* C10: in one request the solver is called at most once and exactly one
\* response is produced; a call that fails is the last call of the request;
\* a validation failure or an evaluation answers with no solver call.
C10_OneSolveOneResponse ==
    /\ SolveCalls <= 1
    /\ Len(responses) = (IF Settled THEN 1 ELSE 0)
    /\ \A i \in 1..Len(calls) :
          (calls[i].raised # None /\ calls[i].fn \in {"parse_expr", "solve"})
              => (i = Len(calls) /\ ParseCalls <= 2)
    /\ (pc = "done" /\ (expr = Unbound \/ solve_var = Unbound)) => SolveCalls = 0

=============================================================================
